---- MODULE Spec2Model ----
(***************************************************************************)
(* Model of the address-input library: the field-configuration builder     *)
(* (parseFmtString, buildFieldConfig and its label helpers) and the        *)
(* validator (validatePostalCode, validateAddress) of                      *)
(* src/src/lib/libaddressinput.ts, the metadata lookup getCountryData of   *)
(* the generated data module, and the <address-input> element of           *)
(* src/src/address-input.ts.                                               *)
(*                                                                         *)
(* Representation of JavaScript values                                     *)
(*   - a string that the code scans character by character (format string, *)
(*     required-fields string, subdivision lists, field values) is a       *)
(*     sequence of one-character strings;                                  *)
(*   - a postal pattern is a sequence of regular-expression tokens;        *)
(*   - a metadata id is a sequence of chunks ("data/" and a country code); *)
(*   - name types, labels and keys are atomic strings, converted by the    *)
(*     case tables below;                                                  *)
(*   - an optional property that is undefined is a key missing from the    *)
(*     record.                                                             *)
(***************************************************************************)
EXTENDS Integers, Sequences, FiniteSets, TLC

VARIABLES
    pc,           \* "build" | "built" | "validate" | "validated" | "postal" | "checked"
    metadata,     \* GoogleAddressMetadata handed to buildFieldConfig
    options,      \* {showName, showOrganization}
    fields,       \* FieldConfig[]: the schema built, or the one handed to validateAddress
    value,        \* Partial<AddressValue> handed to validateAddress
    validation,   \* result of validateAddress: [valid, errors]
    postalCode,   \* first argument of validatePostalCode
    pattern,      \* second argument of validatePostalCode (NoPattern when undefined)
    postalResult, \* result of validatePostalCode
    addressData,        \* the metadata store: country code -> GoogleAddressMetadata
    country,            \* this.country (or the argument of getCountryData)
    showName,           \* this.showName
    showOrganization,   \* this.showOrganization
    thisValue,          \* this.value
    fieldConfigs,       \* this._fieldConfigs
    fieldErrors,        \* this._fieldErrors: <<key, message>> pairs in insertion order
    touchedFields,      \* this._touchedFields
    changedProperties,  \* the reactive properties changed since the last update
    step,               \* the event handler that has just run: [name, field]
    dispatched,         \* the events it dispatched
    thrown              \* whether it ended with an exception

\* The function calls
libraryVars ==
    <<metadata, options, fields, value, validation, postalCode, pattern, postalResult>>

\* The element
elementVars ==
    <<showName, showOrganization, thisValue, fieldConfigs, fieldErrors, touchedFields,
      changedProperties, step, dispatched, thrown>>

vars == <<pc, libraryVars, addressData, country, elementVars>>

-----------------------------------------------------------------------------
(* Bounds of the model *)

MaxFmtTokens == 3
MaxRequireLen == 2
MaxValueLen == 3
MaxPatternLen == 3
MaxSchemaLen == 2

-----------------------------------------------------------------------------
(* Generic helpers *)

EmptyRec == [x \in {} |-> TRUE]

Has(r, k) == k \in DOMAIN r

\* Sequences over S of length 0..n
SeqsUpTo(S, n) == UNION {[1..k -> S] : k \in 0..n}

Range(s) == {s[i] : i \in 1..Len(s)}

\* Array.prototype.includes
Includes(s, x) == \E i \in 1..Len(s) : s[i] = x

RECURSIVE Flatten(_)
Flatten(ss) == IF ss = <<>> THEN <<>> ELSE Head(ss) \o Flatten(Tail(ss))

\* An optional property: the empty record when absent
Prop(k, opt) == IF opt = <<>> THEN EmptyRec ELSE (k :> opt[1])
Some(S) == {<<x>> : x \in S}
None == {<<>>}

-----------------------------------------------------------------------------
(* parseFmtString *)

AddressFieldLetters == {"N", "O", "A", "C", "S", "Z", "X", "D"}

\* The loop of fieldPattern.exec(fmt): scanning from index i, a '%' followed by
\* one of NOACSZXD is a match of two characters; a field is pushed unless
\* already included.
RECURSIVE ParseScan(_, _, _)
ParseScan(fmt, i, found) ==
    IF i > Len(fmt) THEN found
    ELSE IF fmt[i] = "%" /\ i < Len(fmt) /\ fmt[i + 1] \in AddressFieldLetters
         THEN ParseScan(fmt, i + 2,
                        IF Includes(found, fmt[i + 1]) THEN found
                        ELSE Append(found, fmt[i + 1]))
         ELSE ParseScan(fmt, i + 1, found)

\* Faulty variant: the includes test is dropped, every match is pushed
RECURSIVE ParseScanAll(_, _, _)
ParseScanAll(fmt, i, found) ==
    IF i > Len(fmt) THEN found
    ELSE IF fmt[i] = "%" /\ i < Len(fmt) /\ fmt[i + 1] \in AddressFieldLetters
         THEN ParseScanAll(fmt, i + 2, Append(found, fmt[i + 1]))
         ELSE ParseScanAll(fmt, i + 1, found)

parseFmtString_NoDedup(fmt) == ParseScanAll(fmt, 1, <<>>)

\* Faulty variant: a field met again moves to the end (order of last appearance)
RECURSIVE ParseScanLast(_, _, _)
ParseScanLast(fmt, i, found) ==
    IF i > Len(fmt) THEN found
    ELSE IF fmt[i] = "%" /\ i < Len(fmt) /\ fmt[i + 1] \in AddressFieldLetters
         THEN ParseScanLast(fmt, i + 2,
                 Append(SelectSeq(found, LAMBDA f : f # fmt[i + 1]), fmt[i + 1]))
         ELSE ParseScanLast(fmt, i + 1, found)

parseFmtString_LastAppearance(fmt) == ParseScanLast(fmt, 1, <<>>)

parseFmtString(fmt) == ParseScan(fmt, 1, <<>>)

-----------------------------------------------------------------------------
(* String conversions *)

\* String.prototype.toLowerCase on the name types the model uses
ToLowerCase(s) ==
    CASE s = "State" -> "state"
      [] s = "PREFECTURE" -> "prefecture"
      [] s = "Canton" -> "canton"
      [] s = "ZIP" -> "zip"
      [] s = "Pin" -> "pin"
      [] s = "Postal" -> "postal"
      [] s = "EIRCODE" -> "eircode"
      [] s = "Postcode" -> "postcode"
      [] s = "Ward" -> "ward"
      [] OTHER -> s

\* String.prototype.toLowerCase on a label
LabelToLowerCase(l) ==
    CASE l = "Postal Code" -> "postal code"
      [] l = "ZIP Code" -> "zip code"
      [] l = "PIN Code" -> "pin code"
      [] l = "Eircode" -> "eircode"
      [] l = "City" -> "city"
      [] l = "Street Address" -> "street address"
      [] OTHER -> l

\* String.prototype.toUpperCase on one chunk of an id
ChunkToUpperCase(c) ==
    CASE c = "data/" -> "DATA/"
      [] c = "us" -> "US"
      [] c = "ie" -> "IE"
      [] c = "jp" -> "JP"
      [] OTHER -> c

IdToUpperCase(id) == [i \in 1..Len(id) |-> ChunkToUpperCase(id[i])]

\* id.replace('data/', ''): the first occurrence of the chunk is removed
RECURSIVE ReplaceDataPrefix(_)
ReplaceDataPrefix(id) ==
    IF id = <<>> THEN <<>>
    ELSE IF Head(id) = "data/" THEN Tail(id)
    ELSE <<Head(id)>> \o ReplaceDataPrefix(Tail(id))

\* String.prototype.split(d) on a sequence of characters
RECURSIVE SplitFrom(_, _, _, _)
SplitFrom(s, d, i, cur) ==
    IF i > Len(s) THEN <<cur>>
    ELSE IF s[i] = d THEN <<cur>> \o SplitFrom(s, d, i + 1, <<>>)
    ELSE SplitFrom(s, d, i + 1, Append(cur, s[i]))

Split(s, d) == SplitFrom(s, d, 1, <<>>)

-----------------------------------------------------------------------------
(* Label helpers *)

\* What a property read of an object literal yields for a name the literal
\* does not define: the lowercase-named members of Object.prototype are
\* inherited (a function and an object, both truthy), every other name is
\* undefined.
ObjectFunction == "function Object() { [native code] }"
ObjectPrototype == "[object Object]"
Undefined == "undefined"

InheritedProperty(name) ==
    CASE name = "constructor" -> ObjectFunction
      [] name = "__proto__" -> ObjectPrototype
      [] OTHER -> Undefined

getFieldWidth(field) ==
    CASE field = "A" -> "full"
      [] field = "C" -> "half"
      [] field = "S" -> "quarter"
      [] field = "Z" -> "quarter"
      [] field \in {"N", "O"} -> "full"
      [] field = "D" -> "half"
      [] field = "X" -> "quarter"
      [] OTHER -> "full"

StateLabelMap(type) ==
    CASE type = "state" -> "State"
      [] type = "province" -> "Province"
      [] type = "county" -> "County"
      [] type = "island" -> "Island"
      [] type = "prefecture" -> "Prefecture"
      [] type = "region" -> "Region"
      [] type = "department" -> "Department"
      [] type = "district" -> "District"
      [] type = "do_si" -> "Do/Si"
      [] type = "emirate" -> "Emirate"
      [] type = "oblast" -> "Oblast"
      [] type = "parish" -> "Parish"
      [] type = "governorate" -> "Governorate"
      [] type = "area" -> "Area"
      [] type = "territory" -> "Territory"
      [] OTHER -> InheritedProperty(type)

getStateLabel(m) ==
    LET lowered == IF Has(m, "state_name_type")
                   THEN ToLowerCase(m.state_name_type) ELSE ""
        type == IF lowered = "" THEN "province" ELSE lowered
        found == StateLabelMap(type)
    IN  IF found = Undefined THEN "State/Province" ELSE found

SublocalityLabelMap(type) ==
    CASE type = "neighborhood" -> "Neighborhood"
      [] type = "district" -> "District"
      [] type = "suburb" -> "Suburb"
      [] type = "village_township" -> "Village/Township"
      [] type = "ward" -> "Ward"
      [] OTHER -> InheritedProperty(type)

CountryOverrides(countryCode) ==
    CASE countryCode = <<"IR">> -> "District"
      [] countryCode = <<"constructor">> -> ObjectFunction
      [] countryCode = <<"__proto__">> -> ObjectPrototype
      [] OTHER -> Undefined

getSublocalityLabel(m) ==
    LET type == IF Has(m, "sublocality_name_type")
                THEN ToLowerCase(m.sublocality_name_type) ELSE ""
        countryCode == IF Has(m, "id") THEN ReplaceDataPrefix(m.id) ELSE <<>>
    IN  IF countryCode # <<>> /\ CountryOverrides(countryCode) # Undefined
        THEN CountryOverrides(countryCode)
        ELSE IF type # "" /\ SublocalityLabelMap(type) # Undefined
             THEN SublocalityLabelMap(type)
             ELSE "District"

getPostalLabel(m) ==
    LET type == IF Has(m, "zip_name_type") THEN ToLowerCase(m.zip_name_type) ELSE Undefined
        id == IF Has(m, "id") THEN IdToUpperCase(m.id) ELSE <<Undefined>>
    IN  CASE type = "pin" -> "PIN Code"
          [] type = "postal" -> "Postal Code"
          [] type = "zip" -> "ZIP Code"
          [] type = "eircode" -> "Eircode"
          [] OTHER ->
               CASE id = <<"US">> -> "ZIP Code"
                 [] id = <<"IE">> -> "Eircode"
                 [] id = <<"IN">> -> "PIN Code"
                 [] OTHER -> "Postal Code"

getFieldLabel(field, m, isNameField) ==
    CASE field = "N" -> (IF isNameField THEN "Full Name" ELSE "Name")
      [] field = "O" -> "Organization"
      [] field = "A" -> "Street Address"
      [] field = "C" -> "City"
      [] field = "S" -> getStateLabel(m)
      [] field = "Z" -> getPostalLabel(m)
      [] field = "D" -> getSublocalityLabel(m)
      [] field = "X" -> "Sorting Code"
      [] OTHER -> field

mapFieldToKey(field) ==
    CASE field = "N" -> "name"
      [] field = "O" -> "organization"
      [] field = "A" -> Undefined
      [] field = "C" -> "city"
      [] field = "S" -> "administrativeArea"
      [] field = "Z" -> "postalCode"
      [] field = "X" -> "sortingCode"
      [] field = "D" -> "dependentLocality"
      [] OTHER -> Undefined

-----------------------------------------------------------------------------
(* parseSubdivisions *)

\* names[index] || key, with names[index] undefined past the end of names
NameOrKey(names, index, key) ==
    IF index <= Len(names) /\ names[index] # <<>> THEN names[index] ELSE key

HasSubdivisions(m) ==
    /\ Has(m, "sub_keys") /\ m.sub_keys # <<>>
    /\ Has(m, "sub_names") /\ m.sub_names # <<>>

\* Faulty variant: the value of an option is always the key
parseSubdivisions_KeyValues(m) ==
    LET keys == Split(m.sub_keys, "~")
        names == IF Has(m, "sub_lnames") THEN Split(m.sub_lnames, "~")
                 ELSE Split(m.sub_names, "~")
    IN  [index \in 1..Len(keys) |->
            [value |-> keys[index],
             label |-> NameOrKey(names, index, keys[index])]]

\* Called only when HasSubdivisions(m); otherwise the result is undefined
parseSubdivisions(m) ==
    LET keys == Split(m.sub_keys, "~")
        hasLatinNames == Has(m, "sub_lnames") /\ m.sub_lnames # <<>>
        names == IF Has(m, "sub_lnames") THEN Split(m.sub_lnames, "~")
                 ELSE Split(m.sub_names, "~")
    IN  [index \in 1..Len(keys) |->
            [value |-> IF hasLatinNames THEN NameOrKey(names, index, keys[index])
                       ELSE keys[index],
             label |-> NameOrKey(names, index, keys[index])]]

-----------------------------------------------------------------------------
(* buildFieldConfig *)

\* '%N%n%O%n%A%n%C %Z'
DefaultFmt ==
    <<"%", "N", "%", "n", "%", "O", "%", "n", "%", "A", "%", "n", "%", "C", " ", "%", "Z">>

\* (metadata.require || '').split('')
RequiredFields(m) == IF Has(m, "require") THEN m.require ELSE <<>>

\* Faulty variant: no default template, a missing format string is empty
FmtString_NoDefault(m) == IF Has(m, "fmt") THEN m.fmt ELSE <<>>

\* metadata.fmt || default
FmtString(m) == IF Has(m, "fmt") /\ m.fmt # <<>> THEN m.fmt ELSE DefaultFmt

\* metadata.id?.replace('data/', '') || ''
CountryCode(m) == IF Has(m, "id") THEN ReplaceDataPrefix(m.id) ELSE <<>>

AddressLine3Countries ==
    << <<"JP">>, <<"CN">>, <<"TW">>, <<"KR">>, <<"VN">>,
       <<"ID">>, <<"TH">>, <<"PH">>, <<"MY">>, <<"SG">> >>

\* Faulty variant: the id is compared without removing "data/"
needsAddressLine3_RawId(m) ==
    Includes(AddressLine3Countries, IF Has(m, "id") THEN m.id ELSE <<>>)

needsAddressLine3(m) == Includes(AddressLine3Countries, CountryCode(m))

AddressFields(m) ==
    IF needsAddressLine3(m) THEN <<"addressLine1", "addressLine2", "addressLine3">>
    ELSE <<"addressLine1", "addressLine2">>

\* Faulty variant: every address line follows the 'A' of the required-fields string
AddressLineConfig_AllRequired(addressField, requiredFields) ==
    [key |-> addressField,
     label |-> IF addressField = "addressLine1" THEN "Street Address"
               ELSE "Apartment, suite, etc.",
     required |-> Includes(requiredFields, "A"),
     visible |-> TRUE,
     type |-> "text",
     width |-> "full",
     placeholder |-> IF addressField = "addressLine1" THEN "123 Main St" ELSE "Apt 4B"]

AddressLineConfig(addressField, requiredFields) ==
    [key |-> addressField,
     label |-> IF addressField = "addressLine1" THEN "Street Address"
               ELSE "Apartment, suite, etc.",
     required |-> addressField = "addressLine1" /\ Includes(requiredFields, "A"),
     visible |-> TRUE,
     type |-> "text",
     width |-> "full",
     placeholder |-> IF addressField = "addressLine1" THEN "123 Main St" ELSE "Apt 4B"]

\* The inner loop over addressFields: st = [fields, added]
RECURSIVE AddAddressLines(_, _, _, _)
AddAddressLines(addressFields, j, requiredFields, st) ==
    IF j > Len(addressFields) THEN st
    ELSE AddAddressLines(addressFields, j + 1, requiredFields,
            IF Includes(st.added, addressFields[j]) THEN st
            ELSE [fields |-> Append(st.fields,
                                    AddressLineConfig(addressFields[j], requiredFields)),
                  added |-> Append(st.added, addressFields[j])])

\* Faulty variant: a postal-code entry without a metadata pattern gets a
\* two-digit pattern
FieldEntry_DefaultPattern(field, m, opts) ==
    LET hasSubs == field = "S" /\ HasSubdivisions(m)
    IN  [key |-> mapFieldToKey(field),
         label |-> getFieldLabel(field, m, opts.showName),
         required |-> Includes(RequiredFields(m), field),
         visible |-> TRUE,
         type |-> IF hasSubs THEN "select" ELSE "text",
         width |-> getFieldWidth(field)]
        @@ (IF hasSubs THEN ("options" :> parseSubdivisions(m)) ELSE EmptyRec)
        @@ (IF field = "Z"
            THEN ("pattern" :> (IF Has(m, "zip") THEN m.zip ELSE <<"\\d", "\\d">>))
            ELSE EmptyRec)

\* The entry pushed for a field other than 'A'
FieldEntry(field, m, opts) ==
    LET hasSubs == field = "S" /\ HasSubdivisions(m)
    IN  [key |-> mapFieldToKey(field),
         label |-> getFieldLabel(field, m, opts.showName),
         required |-> Includes(RequiredFields(m), field),
         visible |-> TRUE,
         type |-> IF hasSubs THEN "select" ELSE "text",
         width |-> getFieldWidth(field)]
        @@ (IF hasSubs THEN ("options" :> parseSubdivisions(m)) ELSE EmptyRec)
        @@ (IF field = "Z" /\ Has(m, "zip") THEN ("pattern" :> m.zip) ELSE EmptyRec)

\* Faulty variant: showName alone decides for both name and organization
SkipField_SharedFlag(field, opts) == field \in {"N", "O"} /\ ~opts.showName

\* Skip name/organization if not requested
SkipField(field, opts) ==
    \/ field = "N" /\ ~opts.showName
    \/ field = "O" /\ ~opts.showOrganization

\* The loop over visibleFields: st = [fields, added]
RECURSIVE BuildLoop(_, _, _, _, _)
BuildLoop(m, opts, visibleFields, i, st) ==
    IF i > Len(visibleFields) THEN st.fields
    ELSE LET field == visibleFields[i]
         IN  IF field = "A"
             THEN BuildLoop(m, opts, visibleFields, i + 1,
                            AddAddressLines(AddressFields(m), 1, RequiredFields(m), st))
             ELSE IF SkipField(field, opts) \/ mapFieldToKey(field) = Undefined
             THEN BuildLoop(m, opts, visibleFields, i + 1, st)
             ELSE BuildLoop(m, opts, visibleFields, i + 1,
                            [st EXCEPT !.fields = Append(@, FieldEntry(field, m, opts))])

buildFieldConfig(m, opts) ==
    BuildLoop(m, opts, parseFmtString(FmtString(m)), 1, [fields |-> <<>>, added |-> <<>>])

-----------------------------------------------------------------------------
(* Regular expressions: new RegExp(source, 'i') and RegExp.prototype.test *)
(* A source is a sequence of tokens: "^", "$", "|", "(", ")", the class   *)
(* "\\d", and literal characters.                                          *)

Digits == {"0", "1", "2", "3", "4", "5", "6", "7", "8", "9"}

\* Case folding of the 'i' flag
FoldCase(c) ==
    CASE c = "a" -> "A"
      [] c = "b" -> "B"
      [] c = "x" -> "X"
      [] OTHER -> c

\* One atom of the source against one character of the input
AtomMatches(tok, c) ==
    IF tok = "\\d" THEN c \in Digits ELSE FoldCase(tok) = FoldCase(c)

\* Nesting depth after the tokens src[1..i]; -1 once a ')' has no '('
RECURSIVE DepthAfter(_, _)
DepthAfter(src, i) ==
    IF i = 0 THEN 0
    ELSE LET d == DepthAfter(src, i - 1)
         IN  IF d < 0 THEN d
             ELSE IF src[i] = "(" THEN d + 1
             ELSE IF src[i] = ")" THEN d - 1
             ELSE d

\* new RegExp(src) throws a SyntaxError for an unterminated group or an
\* unmatched ')'
RegExpCompiles(src) == DepthAfter(src, Len(src)) = 0

\* The index of the ')' closing the '(' at index open
RECURSIVE ClosingParen(_, _, _)
ClosingParen(src, k, depth) ==
    IF src[k] = "(" THEN ClosingParen(src, k + 1, depth + 1)
    ELSE IF src[k] = ")" THEN (IF depth = 1 THEN k ELSE ClosingParen(src, k + 1, depth - 1))
    ELSE ClosingParen(src, k + 1, depth)

\* The indices in lo..hi of the '|' tokens that are outside every group of
\* src[lo..hi]
TopLevelBars(src, lo, hi) ==
    {k \in lo..hi : src[k] = "|" /\ DepthAfter(src, k) = DepthAfter(src, lo - 1)}

RECURSIVE DisjunctionEnds(_, _, _, _, _)
RECURSIVE AlternativeEnds(_, _, _, _, _)

\* The positions where a match of the disjunction src[lo..hi] can end when it
\* starts at one of the positions starts (positions are 1..Len(input)+1)
DisjunctionEnds(src, lo, hi, input, starts) ==
    LET bars == TopLevelBars(src, lo, hi)
        cuts == bars \cup {lo - 1, hi + 1}
    IN  UNION {AlternativeEnds(src, a + 1, b - 1, input, starts) :
                 <<a, b>> \in {<<x, y>> \in cuts \X cuts :
                                  x < y /\ ~\E z \in cuts : x < z /\ z < y}}

\* The same for one alternative (a concatenation of terms)
AlternativeEnds(src, lo, hi, input, starts) ==
    IF lo > hi \/ starts = {} THEN starts
    ELSE CASE src[lo] = "^" ->
                AlternativeEnds(src, lo + 1, hi, input, starts \cap {1})
           [] src[lo] = "$" ->
                AlternativeEnds(src, lo + 1, hi, input, starts \cap {Len(input) + 1})
           [] src[lo] = "(" ->
                LET close == ClosingParen(src, lo, 0)
                IN  AlternativeEnds(src, close + 1, hi, input,
                        DisjunctionEnds(src, lo + 1, close - 1, input, starts))
           [] OTHER ->
                AlternativeEnds(src, lo + 1, hi, input,
                    {p + 1 : p \in {q \in starts :
                                      q <= Len(input) /\ AtomMatches(src[lo], input[q])}})

\* regex.test(input): a match starting anywhere
RegExpTest(src, input) ==
    \E start \in 1..(Len(input) + 1) :
        DisjunctionEnds(src, 1, Len(src), input, {start}) # {}

-----------------------------------------------------------------------------
(* validatePostalCode *)

\* pattern.replace(/\\d/g, '\\d').replace(/\\s/g, '\\s')
ConvertJavaRegex(p) ==
    [i \in 1..Len(p) |->
        IF p[i] = "\\d" THEN "\\d" ELSE IF p[i] = "\\s" THEN "\\s" ELSE p[i]]

\* Faulty variant: the empty value is rejected before the pattern is looked at
validatePostalCode_EmptyValueFirst(code, patternOpt) ==
    IF code = <<>> THEN FALSE
    ELSE IF patternOpt = <<>> \/ patternOpt[1] = <<>> THEN TRUE
    ELSE LET src == <<"^">> \o ConvertJavaRegex(patternOpt[1]) \o <<"$">>
         IN  IF RegExpCompiles(src) THEN RegExpTest(src, code)
             ELSE Len(code) > 0

\* patternOpt is <<>> for an undefined pattern and <<p>> for the pattern p
validatePostalCode(code, patternOpt) ==
    IF patternOpt = <<>> \/ patternOpt[1] = <<>> THEN TRUE
    ELSE IF code = <<>> THEN FALSE
    ELSE LET src == <<"^">> \o ConvertJavaRegex(patternOpt[1]) \o <<"$">>
         IN  IF RegExpCompiles(src) THEN RegExpTest(src, code)
             ELSE Len(code) > 0

-----------------------------------------------------------------------------
(* validateAddress *)

Whitespace == {" "}

\* String.prototype.trim
RECURSIVE TrimStart(_)
TrimStart(v) == IF v # <<>> /\ Head(v) \in Whitespace THEN TrimStart(Tail(v)) ELSE v

RECURSIVE TrimEnd(_)
TrimEnd(v) ==
    IF v # <<>> /\ v[Len(v)] \in Whitespace THEN TrimEnd(SubSeq(v, 1, Len(v) - 1)) ELSE v

Trim(v) == TrimEnd(TrimStart(v))

\* !fieldValue || fieldValue.trim() === '', for fieldValue = value[field.key]
MissingOrBlank(v, key) == ~Has(v, key) \/ v[key] = <<>> \/ Trim(v[key]) = <<>>

\* `${field.label} is required`
RequiredError(field) == <<field.label, " is required">>

\* `Invalid ${field.label.toLowerCase()} format`
FormatError(field) == <<"Invalid ", LabelToLowerCase(field.label), " format">>

\* Faulty variant: no `continue` after the required error, the pattern check follows
FieldErrors_NoContinue(v, field) ==
    IF ~field.visible THEN <<>>
    ELSE (IF field.required /\ MissingOrBlank(v, field.key)
          THEN <<RequiredError(field)>> ELSE <<>>)
         \o (IF /\ field.key = "postalCode"
                 /\ Has(field, "pattern") /\ field.pattern # <<>>
                 /\ Has(v, field.key) /\ v[field.key] # <<>>
                 /\ ~validatePostalCode(v[field.key], <<field.pattern>>)
              THEN <<FormatError(field)>> ELSE <<>>)

\* The errors one entry of the schema adds
FieldErrors(v, field) ==
    IF ~field.visible THEN <<>>
    ELSE IF field.required /\ MissingOrBlank(v, field.key) THEN <<RequiredError(field)>>
    ELSE IF /\ field.key = "postalCode"
            /\ Has(field, "pattern") /\ field.pattern # <<>>
            /\ Has(v, field.key) /\ v[field.key] # <<>>
            /\ ~validatePostalCode(v[field.key], <<field.pattern>>)
         THEN <<FormatError(field)>>
    ELSE <<>>

RECURSIVE ValidateLoop(_, _, _, _)
ValidateLoop(v, fs, i, errors) ==
    IF i > Len(fs) THEN errors
    ELSE ValidateLoop(v, fs, i + 1, errors \o FieldErrors(v, fs[i]))

validateAddress(v, fs) ==
    LET errors == ValidateLoop(v, fs, 1, <<>>)
    IN  [valid |-> Len(errors) = 0, errors |-> errors]

-----------------------------------------------------------------------------
(* getCountryData *)

\* addressData[code] || addressData['ZZ'] || {}: the store is an object
\* literal, so a code it does not define can still name a member inherited
\* from Object.prototype (the Object function, whose only metadata property
\* is its name, or the prototype object, which has none)
getCountryData(code) ==
    IF code \in DOMAIN addressData THEN addressData[code]
    ELSE IF InheritedProperty(code) = ObjectFunction THEN [name |-> "Object"]
    ELSE IF InheritedProperty(code) = ObjectPrototype THEN EmptyRec
    ELSE IF "ZZ" \in DOMAIN addressData THEN addressData["ZZ"]
    ELSE EmptyRec

-----------------------------------------------------------------------------
(* The <address-input> element *)

\* The characters of the labels and message parts, for String.prototype.includes
Chars(str) ==
    CASE str = "Name" -> <<"N", "a", "m", "e">>
      [] str = "Full Name" -> <<"F", "u", "l", "l", " ", "N", "a", "m", "e">>
      [] str = "Organization" ->
            <<"O", "r", "g", "a", "n", "i", "z", "a", "t", "i", "o", "n">>
      [] str = "Street Address" ->
            <<"S", "t", "r", "e", "e", "t", " ", "A", "d", "d", "r", "e", "s", "s">>
      [] str = "Apartment, suite, etc." ->
            <<"A", "p", "a", "r", "t", "m", "e", "n", "t", ",", " ",
              "s", "u", "i", "t", "e", ",", " ", "e", "t", "c", ".">>
      [] str = "City" -> <<"C", "i", "t", "y">>
      [] str = "State" -> <<"S", "t", "a", "t", "e">>
      [] str = "ZIP Code" -> <<"Z", "I", "P", " ", "C", "o", "d", "e">>
      [] str = "zip code" -> <<"z", "i", "p", " ", "c", "o", "d", "e">>
      [] str = "Postal Code" -> <<"P", "o", "s", "t", "a", "l", " ", "C", "o", "d", "e">>
      [] str = "postal code" -> <<"p", "o", "s", "t", "a", "l", " ", "c", "o", "d", "e">>
      [] str = " is required" ->
            <<" ", "i", "s", " ", "r", "e", "q", "u", "i", "r", "e", "d">>
      [] str = "Invalid " -> <<"I", "n", "v", "a", "l", "i", "d", " ">>
      [] str = " format" -> <<" ", "f", "o", "r", "m", "a", "t">>
      [] OTHER -> <<str>>

\* The text of an error message (a sequence of parts)
ErrorText(error) == Flatten([i \in 1..Len(error) |-> Chars(error[i])])

\* String.prototype.includes on character sequences
StringIncludes(text, part) ==
    \E k \in 0..(Len(text) - Len(part)) : SubSeq(text, k + 1, k + Len(part)) = part

\* A plain object with string keys: <<key, value>> pairs in insertion order
ObjectHas(obj, k) == \E i \in 1..Len(obj) : obj[i][1] = k

ObjectSet(obj, k, x) ==
    IF ObjectHas(obj, k)
    THEN [i \in 1..Len(obj) |-> IF obj[i][1] = k THEN <<k, x>> ELSE obj[i]]
    ELSE Append(obj, <<k, x>>)

ObjectDelete(obj, k) == SelectSeq(obj, LAMBDA e : e[1] # k)

ObjectValues(obj) == [i \in 1..Len(obj) |-> obj[i][2]]

\* _updateFieldConfigs
updateFieldConfigs(c, sn, so) ==
    buildFieldConfig(getCountryData(c), [showName |-> sn, showOrganization |-> so])

\* _resetInapplicableFields: { country: this.country } overwritten by the
\* entries of this.value whose key is 'country' or a key of the schema
resetInapplicableFields(v, fs, c) ==
    LET validKeys == {fs[i].key : i \in 1..Len(fs)}
        kept == {k \in DOMAIN v : k = "country" \/ k \in validKeys}
    IN  [k \in kept \cup {"country"} |-> IF k \in kept THEN v[k] ELSE c]

\* _validateField: the outcome (an exception of new RegExp, or the new
\* _fieldErrors)
validateField(field, v, fs, errs) ==
    LET found == {i \in 1..Len(fs) : fs[i].key = field}
    IN  IF found = {} THEN [thrown |-> FALSE, fieldErrors |-> errs]
        ELSE LET fieldConfig == fs[CHOOSE i \in found : \A j \in found : i <= j]
                 val == IF Has(v, field) THEN v[field] ELSE <<>>
                 usesPattern == /\ Has(fieldConfig, "pattern")
                                /\ fieldConfig.pattern # <<>> /\ val # <<>>
                 regex == <<"^">> \o fieldConfig.pattern \o <<"$">>
                 errors ==
                    (IF fieldConfig.required /\ MissingOrBlank(v, field)
                     THEN <<RequiredError(fieldConfig)>> ELSE <<>>)
                    \o (IF usesPattern /\ ~RegExpTest(regex, val)
                        THEN <<FormatError(fieldConfig)>> ELSE <<>>)
             IN  IF usesPattern /\ ~RegExpCompiles(regex)
                 THEN [thrown |-> TRUE, fieldErrors |-> errs]
                 ELSE [thrown |-> FALSE,
                       fieldErrors |-> IF Len(errors) > 0
                                       THEN ObjectSet(errs, field, errors[1])
                                       ELSE ObjectDelete(errs, field)]

\* The loop of _validateAll: an error is filed under the key of the first
\* entry whose label the message includes
RECURSIVE FileErrors(_, _, _, _)
FileErrors(errors, fs, i, obj) ==
    IF i > Len(errors) THEN obj
    ELSE LET found == {j \in 1..Len(fs) :
                          StringIncludes(ErrorText(errors[i]), Chars(fs[j].label))}
             first == CHOOSE j \in found : \A k \in found : j <= k
         IN  FileErrors(errors, fs, i + 1,
                        IF found = {} THEN obj
                        ELSE ObjectSet(obj, fs[first].key, errors[i]))

\* _validateAll: the value returned and the new _fieldErrors
validateAll(v, fs) ==
    LET result == validateAddress(v, fs)
    IN  [valid |-> result.valid, fieldErrors |-> FileErrors(result.errors, fs, 1, <<>>)]

\* getValue: country, addressLine1 and city first, overwritten by the entries
\* of this.value
getValue(v, c) ==
    v @@ [k \in {"country", "addressLine1", "city"} |->
            CASE k = "country" -> c
              [] k = "addressLine1" -> IF Has(v, "addressLine1") THEN v.addressLine1 ELSE <<>>
              [] k = "city" -> IF Has(v, "city") THEN v.city ELSE <<>>]

\* value[key] || ''
ValueOrEmpty(v, key) == IF Has(v, key) THEN v[key] ELSE <<>>

\* _emitChange: the new _fieldErrors and the two events dispatched
emitChange(v, c, fs) ==
    LET addressValue ==
            [k \in {"country", "addressLine1", "city"} |->
                CASE k = "country" -> c
                  [] k = "addressLine1" -> ValueOrEmpty(v, "addressLine1")
                  [] k = "city" -> ValueOrEmpty(v, "city")] @@ v
        all == validateAll(v, fs)
    IN  [fieldErrors |-> all.fieldErrors,
         dispatched |->
            <<[type |-> "change", detail |-> addressValue],
              [type |-> "valid",
               detail |-> [valid |-> all.valid,
                           errors |-> ObjectValues(all.fieldErrors)]]>>]

-----------------------------------------------------------------------------
(* Inputs *)

\* Format strings: concatenations of up to MaxFmtTokens pieces, a piece being a
\* placeholder, the line break %n, a lone '%' or a literal letter
FmtPieces ==
    {<<"%", l>> : l \in AddressFieldLetters} \cup {<<"%", "n">>, <<"%">>, <<"C">>}

PieceFmts == {Flatten(ps) : ps \in SeqsUpTo(FmtPieces, MaxFmtTokens)}

\* "%N%n%O%n%A%n%C, %S %Z", the example of parseFmtString's comment
ExampleFmt ==
    <<"%", "N", "%", "n", "%", "O", "%", "n", "%", "A", "%", "n",
      "%", "C", ",", " ", "%", "S", " ", "%", "Z">>

RepresentativeFmts ==
    {ExampleFmt,
     <<"%", "A", "%", "n", "%", "Z">>,
     <<"%", "S", "%", "n", "%", "C", "%", "n", "%", "A", "%", "n", "%", "O", "%", "n", "%", "N">>,
     <<"%", "D", " ", "%", "X", "%", "n", "%", "S", "%", "Z">>,
     <<"%", "A", "%", "n", "%", "C", "%", "n", "%", "A", "%", "Z", "%", "C">>}

CountryCodes ==
    {"JP", "CN", "TW", "KR", "VN", "ID", "TH", "PH", "MY", "SG",
     "US", "IE", "IN", "DE", "IR"}

\* Metadata ids: the country code, the code behind "data/" (the form the
\* metadata service delivers), a lowercase code, the empty string
IdInputs ==
    {<<c>> : c \in CountryCodes} \cup {<<"data/", c>> : c \in CountryCodes}
    \cup {<<"us">>, <<"jp">>, <<>>}

ZipNameTypes == {"pin", "postal", "zip", "eircode", "ZIP", "Pin", "postcode", ""}

StateNameTypes ==
    {"state", "province", "county", "island", "prefecture", "region", "department",
     "district", "do_si", "emirate", "oblast", "parish", "governorate", "area",
     "territory", "State", "PREFECTURE", "canton", "Canton", "constructor", ""}

SublocalityNameTypes == {"neighborhood", "suburb", "Ward", "townland"}

RequireChars == AddressFieldLetters

ZipPatterns == {<<"\\d", "\\d">>, <<"A", "|", "\\d">>, <<"(">>, <<>>}

OptionInputs == [showName : BOOLEAN, showOrganization : BOOLEAN]

DefaultOptions == [showName |-> FALSE, showOrganization |-> FALSE]

\* A metadata record from optional properties (<<>> absent, <<x>> present)
Meta(fmt, require, id, zipType, stateType, subType, zip) ==
    Prop("fmt", fmt) @@ Prop("require", require) @@ Prop("id", id)
    @@ Prop("zip_name_type", zipType) @@ Prop("state_name_type", stateType)
    @@ Prop("sublocality_name_type", subType) @@ Prop("zip", zip)

\* Every format string, with few other properties
FormatInputs ==
    {Meta(f, r, i, <<>>, <<>>, <<>>, <<>>) :
        f \in None \cup Some(PieceFmts),
        r \in Some({<<"A", "C">>}),
        i \in Some({<<"US">>, <<"data/", "JP">>})}

\* Every id and name type, with few format strings
LabelInputs ==
    {Meta(f, <<>>, i, zt, <<>>, <<>>, z) :
        f \in None \cup Some({ExampleFmt, <<"%", "Z">>}),
        i \in None \cup Some(IdInputs),
        zt \in None \cup Some(ZipNameTypes),
        z \in None \cup Some({<<"\\d", "\\d">>})}
    \cup
    {Meta(f, <<>>, i, <<>>, st, sub, <<>>) :
        f \in Some({ExampleFmt, <<"%", "D", "%", "S">>}),
        i \in None \cup Some({<<"US">>, <<"data/", "JP">>, <<"IR">>}),
        st \in None \cup Some(StateNameTypes),
        sub \in None \cup Some(SublocalityNameTypes)}

\* Every required-fields string, with few format strings
RequireInputs ==
    {Meta(f, r, i, <<>>, <<>>, <<>>, z) :
        f \in None \cup Some(RepresentativeFmts),
        r \in None \cup Some(SeqsUpTo(RequireChars, MaxRequireLen)),
        i \in None \cup Some({<<"SG">>}),
        z \in None \cup Some({<<"\\d", "\\d">>})}

\* Subdivision lists: keys, plain names and Latin-script names, each absent,
\* empty, shorter than the keys or with an empty name; a format string with
\* and one without %S
SubKeyInputs == {<<"A", "~", "B">>, <<"A">>, <<>>}
SubNameInputs == {<<"a", "~", "b">>, <<"a">>, <<"~", "b">>}
SubLatinNameInputs == {<<"x", "~", "y">>, <<"~", "y">>, <<>>}

SubdivisionInputs ==
    {Meta(<<f>>, <<>>, <<<<"US">>>>, <<>>, <<>>, <<>>, <<>>)
        @@ Prop("sub_keys", k) @@ Prop("sub_names", n) @@ Prop("sub_lnames", l) :
        f \in {ExampleFmt, <<"%", "C">>},
        k \in None \cup Some(SubKeyInputs),
        n \in None \cup Some(SubNameInputs),
        l \in None \cup Some(SubLatinNameInputs)}

\* Postal patterns: absent, well-formed, malformed or empty, under a few format
\* and required-fields strings
PatternMetadataInputs ==
    {Meta(<<f>>, r, i, <<>>, <<>>, <<>>, z) :
        f \in {ExampleFmt, <<"%", "A", "%", "n", "%", "Z">>, <<"%", "C">>},
        r \in None \cup Some({<<"Z">>, <<"A", "C", "Z">>}),
        i \in Some({<<"HK">>, <<"data/", "US">>}),
        z \in None \cup Some(ZipPatterns)}

MetadataInputs ==
    FormatInputs \cup LabelInputs \cup RequireInputs \cup SubdivisionInputs
    \cup PatternMetadataInputs

\* Schemas handed to validateAddress by a caller: up to MaxSchemaLen entries
CityConfig(r, v, p) ==
    [key |-> "city", label |-> "City", required |-> r, visible |-> v,
     type |-> "text", width |-> "half"] @@ Prop("pattern", p)

CityConfigs ==
    {CityConfig(r, v, <<>>) : r \in BOOLEAN, v \in BOOLEAN}
    \cup {CityConfig(TRUE, TRUE, <<<<"\\d">>>>)}

PostalConfigs ==
    {[key |-> "postalCode", label |-> l, required |-> r, visible |-> v,
      type |-> "text", width |-> "quarter"] @@ Prop("pattern", p) :
        l \in {"Postal Code"}, r \in BOOLEAN, v \in BOOLEAN,
        p \in None \cup Some(ZipPatterns)}

SchemaInputs == SeqsUpTo(CityConfigs \cup PostalConfigs, MaxSchemaLen)

\* Address values: each key absent or one of a few strings
CityValues == {<<" ">>, <<"X">>}
PostalValues == {<<>>, <<" ">>, <<"1", "2">>, <<"A", "X">>}

AddressValueInputs ==
    {Prop("city", c) @@ Prop("postalCode", z) :
        c \in None \cup Some(CityValues), z \in None \cup Some(PostalValues)}

\* Arguments of validatePostalCode
ValueChars == {"A", "a", "1"}
PatternTokens == {"A", "\\d", "|", "(", ")"}

PostalCodeInputs == SeqsUpTo(ValueChars, MaxValueLen)
PatternInputs == None \cup Some(SeqsUpTo(PatternTokens, MaxPatternLen))


\* The metadata store, abridged: three records of the service (ids with the
\* "data/" prefix, as generateTypeScript keeps them).  The postal patterns
\* are shortened to two digits; the record of BR stands for a pattern that is
\* no JavaScript regular expression (an unterminated group).
AddressData ==
    ("US" :> [id |-> <<"data/", "US">>, fmt |-> ExampleFmt,
              require |-> <<"A", "C", "S", "Z">>, zip |-> <<"\\d", "\\d">>,
              zip_name_type |-> "zip", state_name_type |-> "state"])
    @@ ("SG" :> [id |-> <<"data/", "SG">>,
                 fmt |-> <<"%", "N", "%", "n", "%", "O", "%", "n", "%", "A", "%", "n",
                           "S", "I", "N", "G", "A", "P", "O", "R", "E", " ", "%", "Z">>,
                 require |-> <<"A", "Z">>, zip |-> <<"\\d", "\\d">>])
    @@ ("BR" :> [id |-> <<"data/", "BR">>,
                 fmt |-> <<"%", "O", "%", "n", "%", "N", "%", "n", "%", "A", "%", "n",
                           "%", "C", "-", "%", "S", "%", "n", "%", "Z">>,
                 require |-> <<"A", "S", "C", "Z">>, zip |-> <<"(", "\\d">>,
                 state_name_type |-> "state"])

\* The generic entry 'ZZ' of the metadata service
SentinelData ==
    [id |-> <<"data/", "ZZ">>,
     fmt |-> <<"%", "N", "%", "n", "%", "O", "%", "n", "%", "A", "%", "n", "%", "C">>,
     require |-> <<"A", "C">>]

\* Stores: any of the records, with or without the generic entry
StoreInputs ==
    {[k \in S |-> IF k = "ZZ" THEN SentinelData ELSE AddressData[k]] :
        S \in SUBSET (DOMAIN AddressData \cup {"ZZ"})}

\* Arguments of getCountryData
CodeInputs == {"US", "us", "Us", "SG", "sg", "XX", "ZZ", "constructor"}

\* Values of the country property set by the host page
CountryInputs == DOMAIN AddressData

\* Arguments of setValue: with and without a country
SetValueInputs ==
    {[country |-> "SG", postalCode |-> <<"1", "2">>], [addressLine1 |-> <<"X">>]}

\* The fields the user edits and the values typed or selected
EditedFields == {"addressLine1", "postalCode"}

FieldValueInputs(field) ==
    IF field = "postalCode" THEN {<<"1", "2">>, <<"A", "X">>} ELSE {<<"X">>}

-----------------------------------------------------------------------------
(* The state machine: one call of an exported function per behaviour *)

NoValidation == EmptyRec

NoStep == [name |-> "", field |-> ""]

\* No element exists: the exported functions are called on their own
NoElement ==
    /\ showName = FALSE /\ showOrganization = FALSE
    /\ thisValue = EmptyRec /\ fieldConfigs = <<>> /\ fieldErrors = <<>>
    /\ touchedFields = {} /\ changedProperties = {}
    /\ step = NoStep /\ dispatched = <<>> /\ thrown = FALSE

\* Neither a store nor an element
NoStore == addressData = EmptyRec /\ country = "" /\ NoElement

\* A call of buildFieldConfig about to be made
InitBuild ==
    /\ pc = "build"
    /\ \/ metadata \in FormatInputs /\ options \in OptionInputs
       \/ /\ metadata \in LabelInputs \cup RequireInputs \cup SubdivisionInputs
          /\ options \in {DefaultOptions, [showName |-> TRUE, showOrganization |-> TRUE]}
    /\ fields = <<>>
    /\ postalCode = <<>> /\ pattern = <<>>
    /\ value = EmptyRec /\ validation = NoValidation /\ postalResult = FALSE
    /\ NoStore

\* A call of validateAddress about to be made on a caller's schema
InitValidate ==
    /\ pc = "validate"
    /\ metadata = EmptyRec /\ options = DefaultOptions
    /\ fields \in SchemaInputs
    /\ postalCode = <<>> /\ pattern = <<>>
    /\ value = EmptyRec /\ validation = NoValidation /\ postalResult = FALSE
    /\ NoStore

\* A call of validatePostalCode about to be made
InitPostal ==
    /\ pc = "postal"
    /\ metadata = EmptyRec /\ options = DefaultOptions
    /\ fields = <<>>
    /\ postalCode \in PostalCodeInputs /\ pattern \in PatternInputs
    /\ value = EmptyRec /\ validation = NoValidation /\ postalResult = FALSE
    /\ NoStore

\* A call of buildFieldConfig whose schema is then handed to validateAddress
InitBuildValidate ==
    /\ pc = "build"
    /\ metadata \in PatternMetadataInputs /\ options = DefaultOptions
    /\ fields = <<>>
    /\ postalCode = <<>> /\ pattern = <<>>
    /\ value = EmptyRec /\ validation = NoValidation /\ postalResult = FALSE
    /\ NoStore

Init == InitBuild \/ InitValidate \/ InitPostal

\* buildFieldConfig(metadata, options)
BuildFieldConfig ==
    /\ pc = "build"
    /\ fields' = buildFieldConfig(metadata, options)
    /\ pc' = "built"
    /\ UNCHANGED <<metadata, options, value, validation, postalCode, pattern, postalResult>>
    /\ UNCHANGED <<addressData, country, elementVars>>

\* validateAddress(value, fields)
ValidateAddress ==
    /\ pc = "validate"
    /\ \E v \in AddressValueInputs :
          /\ value' = v
          /\ validation' = validateAddress(v, fields)
    /\ pc' = "validated"
    /\ UNCHANGED <<metadata, options, fields, postalCode, pattern, postalResult>>
    /\ UNCHANGED <<addressData, country, elementVars>>

\* validateAddress(value, buildFieldConfig(metadata, options))
ValidateBuiltSchema ==
    /\ pc = "built"
    /\ \E v \in AddressValueInputs :
          /\ value' = v
          /\ validation' = validateAddress(v, fields)
    /\ pc' = "validated"
    /\ UNCHANGED <<metadata, options, fields, postalCode, pattern, postalResult>>
    /\ UNCHANGED <<addressData, country, elementVars>>

\* validatePostalCode(postalCode, pattern)
ValidatePostalCode ==
    /\ pc = "postal"
    /\ postalResult' = validatePostalCode(postalCode, pattern)
    /\ pc' = "checked"
    /\ UNCHANGED <<metadata, options, fields, value, validation, postalCode, pattern>>
    /\ UNCHANGED <<addressData, country, elementVars>>

Next == BuildFieldConfig \/ ValidateAddress \/ ValidateBuiltSchema \/ ValidatePostalCode

Spec == Init /\ [][Next]_vars

\* The three exported functions, each with its own inputs
SpecBuild == InitBuild /\ [][BuildFieldConfig]_vars
SpecValidate == InitValidate /\ [][ValidateAddress]_vars
SpecPostal == InitPostal /\ [][ValidatePostalCode]_vars

\* The builder followed by the validator
SpecBuildValidate == InitBuildValidate /\ [][BuildFieldConfig \/ ValidateBuiltSchema]_vars

-----------------------------------------------------------------------------
(* The state machine of getCountryData: one lookup per behaviour *)

InitCountryData ==
    /\ pc = "lookup"
    /\ addressData \in StoreInputs /\ country \in CodeInputs
    /\ metadata = EmptyRec /\ options = DefaultOptions /\ fields = <<>>
    /\ postalCode = <<>> /\ pattern = <<>>
    /\ value = EmptyRec /\ validation = NoValidation /\ postalResult = FALSE
    /\ NoElement

\* getCountryData(country)
GetCountryData ==
    /\ pc = "lookup"
    /\ metadata' = getCountryData(country)
    /\ pc' = "found"
    /\ UNCHANGED <<options, fields, value, validation, postalCode, pattern, postalResult>>
    /\ UNCHANGED <<addressData, country, elementVars>>

SpecCountryData == InitCountryData /\ [][GetCountryData]_vars

-----------------------------------------------------------------------------
(* The state machine of the element *)

\* The reactive properties and states given a value by a field initializer
InitializedProperties ==
    {"country", "value", "required", "showOrganization", "showName",
     "_fieldErrors", "_touchedFields"}

\* The element after its constructor: the defaults of the class fields, each
\* recorded as a changed property for the first update
InitElement ==
    /\ pc = "constructed"
    /\ addressData = AddressData
    /\ country = "US"
    /\ showName = FALSE /\ showOrganization = FALSE
    /\ thisValue = EmptyRec
    /\ fieldConfigs = <<>> /\ fieldErrors = <<>> /\ touchedFields = {}
    /\ changedProperties = InitializedProperties
    /\ step = NoStep
    /\ dispatched = <<>> /\ thrown = FALSE
    /\ metadata = EmptyRec /\ options = DefaultOptions /\ fields = <<>>
    /\ postalCode = <<>> /\ pattern = <<>>
    /\ value = EmptyRec /\ validation = NoValidation /\ postalResult = FALSE

\* An operation that is no event handler: nothing dispatched, nothing thrown
NoHandler == step' = NoStep /\ dispatched' = <<>> /\ thrown' = FALSE

\* The host page sets the country property (or attribute) to another value
SetCountry ==
    /\ \E c \in CountryInputs :
          /\ c # country
          /\ country' = c
    /\ changedProperties' = changedProperties \cup {"country"}
    /\ NoHandler
    /\ UNCHANGED <<pc, libraryVars, addressData, showName, showOrganization, thisValue,
                   fieldConfigs, fieldErrors, touchedFields>>

\* The host page toggles showName
SetShowName ==
    /\ showName' = ~showName
    /\ changedProperties' = changedProperties \cup {"showName"}
    /\ NoHandler
    /\ UNCHANGED <<pc, libraryVars, addressData, country, showOrganization, thisValue,
                   fieldConfigs, fieldErrors, touchedFields>>

\* The host page toggles showOrganization
SetShowOrganization ==
    /\ showOrganization' = ~showOrganization
    /\ changedProperties' = changedProperties \cup {"showOrganization"}
    /\ NoHandler
    /\ UNCHANGED <<pc, libraryVars, addressData, country, showName, thisValue,
                   fieldConfigs, fieldErrors, touchedFields>>

\* setValue(value): the country property follows value.country, the value is
\* merged into this.value, an update is requested
SetValue ==
    /\ \E v \in SetValueInputs :
          /\ country' = IF Has(v, "country") /\ v.country # country
                        THEN v.country ELSE country
          /\ thisValue' = v @@ thisValue
    /\ changedProperties' =
          changedProperties \cup {"value"}
          \cup (IF country' # country THEN {"country"} ELSE {})
    /\ NoHandler
    /\ UNCHANGED <<pc, libraryVars, addressData, showName, showOrganization,
                   fieldConfigs, fieldErrors, touchedFields>>

\* connectedCallback: updating is enabled and the schema is built
ConnectedCallback ==
    /\ pc = "constructed"
    /\ pc' = "connected"
    /\ fieldConfigs' = updateFieldConfigs(country, showName, showOrganization)
    /\ NoHandler
    /\ UNCHANGED <<libraryVars, addressData, country, showName, showOrganization,
                   thisValue, fieldErrors, touchedFields, changedProperties>>

\* The pending update is processed: willUpdate(changedProperties), then render
WillUpdate ==
    /\ pc \in {"connected", "rendered"}
    /\ changedProperties # {}
    /\ IF "country" \in changedProperties
       THEN /\ fieldConfigs' = updateFieldConfigs(country, showName, showOrganization)
            /\ thisValue' = resetInapplicableFields(thisValue, fieldConfigs', country)
       ELSE UNCHANGED <<fieldConfigs, thisValue>>
    /\ changedProperties' = {}
    /\ pc' = "rendered"
    /\ NoHandler
    /\ UNCHANGED <<libraryVars, addressData, country, showName, showOrganization,
                   fieldErrors, touchedFields>>

\* The user acts on the rendered form, after every pending update
Interactive == pc = "rendered" /\ changedProperties = {}

\* _handleCountryChange: the user selects another country of the list
HandleCountryChange ==
    /\ Interactive
    /\ \E c \in DOMAIN addressData \ {"ZZ"} :
          /\ c # country
          /\ country' = c
          /\ LET emitted == emitChange(thisValue, c, fieldConfigs)
             IN  /\ fieldErrors' = emitted.fieldErrors
                 /\ dispatched' = emitted.dispatched
    /\ changedProperties' = {"country", "_fieldErrors"}
    /\ step' = [name |-> "handleCountryChange", field |-> ""]
    /\ thrown' = FALSE
    /\ UNCHANGED <<pc, libraryVars, addressData, showName, showOrganization, thisValue,
                   fieldConfigs, touchedFields>>

\* _handleFieldChange: the user types in, or selects in, a field of the form
HandleFieldChange ==
    /\ Interactive
    /\ \E i \in 1..Len(fieldConfigs) :
          /\ fieldConfigs[i].visible /\ fieldConfigs[i].key \in EditedFields
          /\ \E input \in FieldValueInputs(fieldConfigs[i].key) :
                LET field == fieldConfigs[i].key
                    newValue == (field :> input) @@ thisValue
                    checked == validateField(field, newValue, fieldConfigs, fieldErrors)
                    emitted == emitChange(newValue, country, fieldConfigs)
                IN  /\ thisValue' = newValue
                    /\ touchedFields' = touchedFields \cup {field}
                    /\ step' = [name |-> "handleFieldChange", field |-> field]
                    /\ IF checked.thrown
                       THEN /\ thrown' = TRUE
                            /\ dispatched' = <<>>
                            /\ fieldErrors' = fieldErrors
                            /\ changedProperties' = {"value"}
                       ELSE /\ thrown' = FALSE
                            /\ dispatched' = emitted.dispatched
                            /\ fieldErrors' = emitted.fieldErrors
                            /\ changedProperties' = {"value", "_fieldErrors"}
    /\ UNCHANGED <<pc, libraryVars, addressData, country, showName, showOrganization,
                   fieldConfigs>>

NextElement ==
    \/ SetCountry \/ SetShowName \/ SetShowOrganization \/ SetValue
    \/ ConnectedCallback \/ WillUpdate
    \/ HandleCountryChange \/ HandleFieldChange

SpecElement == InitElement /\ [][NextElement]_vars

-----------------------------------------------------------------------------
(* Vocabulary of the properties *)

\* The keys of a schema with their number of entries
Count(fs, key) == Cardinality({i \in 1..Len(fs) : fs[i].key = key})

HasKey(fs, key) == \E i \in 1..Len(fs) : fs[i].key = key

\* The placeholder %l occurs in the format string
ContainsPlaceholder(fmt, l) ==
    \E i \in 1..(Len(fmt) - 1) : fmt[i] = "%" /\ fmt[i + 1] = l

\* The position of the first %l in the format string
FirstAppearance(fmt, l) ==
    CHOOSE i \in 1..(Len(fmt) - 1) :
        /\ fmt[i] = "%" /\ fmt[i + 1] = l
        /\ \A k \in 1..(i - 1) : ~(fmt[k] = "%" /\ fmt[k + 1] = l)

\* The field identifier an entry comes from
SourceIdentifier(key) ==
    CASE key \in {"addressLine1", "addressLine2", "addressLine3"} -> "A"
      [] key = "name" -> "N"
      [] key = "organization" -> "O"
      [] key = "city" -> "C"
      [] key = "administrativeArea" -> "S"
      [] key = "postalCode" -> "Z"
      [] key = "sortingCode" -> "X"
      [] key = "dependentLocality" -> "D"

\* The metadata id names country c, bare or behind "data/"
IdNames(m, c) == Has(m, "id") /\ m.id \in {<<c>>, <<"data/", c>>}

AllowListed(m) ==
    \E c \in {"JP", "CN", "TW", "KR", "VN", "ID", "TH", "PH", "MY", "SG"} : IdNames(m, c)

\* The identifiers of the format string that are not skipped
ShownIdentifiers(m, opts) ==
    {l \in AddressFieldLetters :
        /\ ContainsPlaceholder(FmtString(m), l)
        /\ ~(l = "N" /\ ~opts.showName)
        /\ ~(l = "O" /\ ~opts.showOrganization)}

-----------------------------------------------------------------------------
(* C1 *)

\* C1 (as claimed): for every metadata record the schema built has exactly one
\* addressLine1 entry and exactly one city entry.
C1_ExactlyOneAddressLine1AndCity ==
    pc = "built" => Count(fields, "addressLine1") = 1 /\ Count(fields, "city") = 1

\* C1 (amended): the schema built has exactly one addressLine1 entry when the
\* format string in force (the metadata's, or the default template when it is
\* missing or empty) contains %A and none otherwise, and exactly one city entry
\* when it contains %C and none otherwise.
C1_OnePerPlaceholder ==
    pc = "built" =>
        /\ Count(fields, "addressLine1") =
              (IF ContainsPlaceholder(FmtString(metadata), "A") THEN 1 ELSE 0)
        /\ Count(fields, "city") =
              (IF ContainsPlaceholder(FmtString(metadata), "C") THEN 1 ELSE 0)

\* A format string with %A twice and no %C was built: one addressLine1, no city
C1_Witness ==
    /\ pc = "built" /\ Has(metadata, "fmt")
    /\ \E i, j \in 1..Len(metadata.fmt) :
          /\ i + 1 < j /\ j < Len(metadata.fmt)
          /\ metadata.fmt[i] = "%" /\ metadata.fmt[i + 1] = "A"
          /\ metadata.fmt[j] = "%" /\ metadata.fmt[j + 1] = "A"
    /\ ~ContainsPlaceholder(metadata.fmt, "C")
    /\ Count(fields, "addressLine1") = 1 /\ Count(fields, "city") = 0

-----------------------------------------------------------------------------
(* C2 *)

\* C2: the entries of the schema are those of the identifiers of the format
\* string that are not skipped, in the order of their first appearance; the
\* address lines appear once, contiguously and in the order 1, 2, 3, at the
\* first %A; no key occurs twice.
C2_FirstAppearanceOrder ==
    pc = "built" =>
        LET fmt == FmtString(metadata)
            src(i) == SourceIdentifier(fields[i].key)
        IN  /\ {src(i) : i \in 1..Len(fields)} = ShownIdentifiers(metadata, options)
            /\ \A i, j \in 1..Len(fields) :
                  i < j =>
                     /\ fields[i].key # fields[j].key
                     /\ IF src(i) = "A" /\ src(j) = "A"
                        THEN /\ \A k \in i..j : src(k) = "A"
                             /\ <<fields[i].key, fields[j].key>> \in
                                   {<<"addressLine1", "addressLine2">>,
                                    <<"addressLine1", "addressLine3">>,
                                    <<"addressLine2", "addressLine3">>}
                        ELSE FirstAppearance(fmt, src(i)) < FirstAppearance(fmt, src(j))

\* %A, another placeholder, %A again: the address lines stay in front
C2_Witness ==
    /\ pc = "built" /\ Has(metadata, "fmt")
    /\ \E l \in AddressFieldLetters \ {"A", "N", "O"} :
          metadata.fmt = <<"%", "A", "%", l, "%", "A">>
    /\ Len(fields) >= 3
    /\ fields[1].key = "addressLine1" /\ fields[2].key = "addressLine2"

-----------------------------------------------------------------------------
(* C3 *)

\* C3 (as claimed): the schema has an addressLine3 entry exactly for the ten
\* allow-listed countries, and addressLine1 and addressLine2 in every case.
C3_ThirdLineForAllowList ==
    pc = "built" =>
        /\ HasKey(fields, "addressLine3") <=> AllowListed(metadata)
        /\ HasKey(fields, "addressLine1") /\ HasKey(fields, "addressLine2")

\* C3 (amended): when the format string in force contains %A, the schema has
\* addressLine1 and addressLine2, and addressLine3 exactly for the ten
\* allow-listed countries; when it does not contain %A the schema has no
\* address-line entry at all.
C3_ThirdLineWhenAddressPlaceholder ==
    pc = "built" =>
        IF ContainsPlaceholder(FmtString(metadata), "A")
        THEN /\ HasKey(fields, "addressLine3") <=> AllowListed(metadata)
             /\ HasKey(fields, "addressLine1") /\ HasKey(fields, "addressLine2")
        ELSE \A i \in 1..Len(fields) : SourceIdentifier(fields[i].key) # "A"

\* An allow-listed country given as "data/<code>" got its third line
C3_Witness ==
    /\ pc = "built" /\ Has(metadata, "id")
    /\ metadata.id = <<"data/", "SG">>
    /\ HasKey(fields, "addressLine3") /\ HasKey(fields, "addressLine2")

-----------------------------------------------------------------------------
(* C4 *)

\* The identifier occurs in the required-fields string (a missing string has
\* no occurrence)
OccursInRequire(m, l) ==
    Has(m, "require") /\ \E k \in 1..Len(m.require) : m.require[k] = l

\* C4: an entry is required exactly when its source identifier occurs in the
\* required-fields string, except that addressLine2 and addressLine3 never
\* are; with no required-fields string nothing is required.
C4_RequiredFollowsRequireString ==
    pc = "built" =>
        \A i \in 1..Len(fields) :
            fields[i].required <=>
                /\ fields[i].key \notin {"addressLine2", "addressLine3"}
                /\ OccursInRequire(metadata, SourceIdentifier(fields[i].key))

\* 'A' is required: line 1 is, lines 2 and 3 are not, and another entry is not
C4_Witness ==
    /\ pc = "built" /\ OccursInRequire(metadata, "A")
    /\ \E i, j, k \in 1..Len(fields) :
          /\ fields[i].key = "addressLine1" /\ fields[i].required
          /\ fields[j].key = "addressLine3" /\ ~fields[j].required
          /\ fields[k].key = "postalCode" /\ ~fields[k].required

-----------------------------------------------------------------------------
(* Vocabulary of the validator's properties *)

\* The value of the key is absent, empty or whitespace only
Blank(v, key) == ~Has(v, key) \/ \A k \in 1..Len(v[key]) : v[key][k] = " "

\* Opening minus closing parentheses among the first k tokens
ParenBalance(p, k) ==
    Cardinality({i \in 1..k : p[i] = "("}) - Cardinality({i \in 1..k : p[i] = ")"})

\* A pattern over the model's tokens is a regular expression exactly when its
\* parentheses pair up
WellFormedPattern(p) ==
    /\ ParenBalance(p, Len(p)) = 0
    /\ \A k \in 1..Len(p) : ParenBalance(p, k) >= 0

\* The whole input is a word of the pattern's language (case-insensitively),
\* i.e. what /^(?:pattern)$/i accepts
FullMatch(input, p) ==
    (Len(input) + 1) \in DisjunctionEnds(p, 1, Len(p), input, {1})

-----------------------------------------------------------------------------
(* C5 *)

\* C5: the errors of validateAddress are taken from the visible entries in
\* schema order, at most one per entry; a required entry whose value is absent
\* or blank gives exactly "<label> is required", an entry that is not required
\* and blank never gives that message; the result is valid exactly when there
\* is no error.
C5_RequiredErrorsInSchemaOrder ==
    pc = "validated" =>
        LET errs == validation.errors
        IN  /\ validation.valid <=> (errs = <<>>)
            /\ \E at \in [1..Len(errs) -> 1..Len(fields)] :
                  /\ \A a, b \in 1..Len(errs) : a < b => at[a] < at[b]
                  /\ \A e \in 1..Len(errs) :
                        LET f == fields[at[e]]
                        IN  /\ f.visible
                            /\ IF f.required /\ Blank(value, f.key)
                               THEN errs[e] = <<f.label, " is required">>
                               ELSE errs[e] = <<"Invalid ", LabelToLowerCase(f.label), " format">>
                  /\ \A i \in 1..Len(fields) :
                        (fields[i].visible /\ fields[i].required /\ Blank(value, fields[i].key))
                           => \E e \in 1..Len(errs) : at[e] = i

\* A required postal code with a pattern and a blank value: the required error
\* alone, after the error of a required city that is missing
C5_Witness ==
    /\ pc = "validated" /\ Len(fields) = 2
    /\ fields[1].key = "city" /\ fields[1].required /\ fields[1].visible
    /\ fields[2].key = "postalCode" /\ fields[2].required /\ fields[2].visible
    /\ Has(fields[2], "pattern") /\ fields[2].pattern = <<"\\d", "\\d">>
    /\ ~Has(value, "city")
    /\ Has(value, "postalCode") /\ value.postalCode = <<" ">>
    /\ validation.errors = << <<"City", " is required">>, <<"Postal Code", " is required">> >>
    /\ ~validation.valid

-----------------------------------------------------------------------------
(* C6 *)

\* C6: for a non-empty value and a well-formed non-empty pattern,
\* validatePostalCode returns true exactly when the whole value matches the
\* pattern, case-insensitively.
C6_AnchoredFullMatch ==
    (/\ pc = "checked"
     /\ pattern # <<>> /\ pattern[1] # <<>> /\ WellFormedPattern(pattern[1])
     /\ postalCode # <<>>)
        => (postalResult <=> FullMatch(postalCode, pattern[1]))

-----------------------------------------------------------------------------
(* C7 *)

\* The entry must be reported with a format error according to the claim
MustReportFormat(v, f) ==
    /\ f.visible /\ f.key = "postalCode"
    /\ Has(f, "pattern") /\ f.pattern # <<>>
    /\ Has(v, f.key) /\ v[f.key] # <<>>
    /\ ~(f.required /\ Blank(v, f.key))
    /\ WellFormedPattern(f.pattern)
    /\ ~FullMatch(v[f.key], f.pattern)

\* C7: validateAddress records "Invalid <label> format" exactly for the visible
\* postal-code entries that have a pattern and a non-empty value, were not
\* reported as required and blank, and whose value does not match the pattern;
\* never for a malformed pattern.
C7_FormatErrorExactlyOnMismatch ==
    pc = "validated" =>
        Cardinality({e \in 1..Len(validation.errors) : validation.errors[e][1] = "Invalid "})
          = Cardinality({i \in 1..Len(fields) : MustReportFormat(value, fields[i])})

-----------------------------------------------------------------------------
(* C8 *)

\* C8: validatePostalCode is true for every value when the pattern is
\* undefined or empty, false for the empty value when the pattern is not
\* empty, and true for every non-empty value when the pattern is malformed.
C8_EmptyAndMalformedCases ==
    pc = "checked" =>
        /\ postalResult \in BOOLEAN
        /\ (pattern = <<>> \/ pattern[1] = <<>>) => postalResult
        /\ (pattern # <<>> /\ pattern[1] # <<>> /\ postalCode = <<>>) => ~postalResult
        /\ (/\ pattern # <<>> /\ pattern[1] # <<>> /\ ~WellFormedPattern(pattern[1])
            /\ postalCode # <<>>) => postalResult

\* A malformed pattern (an unterminated group) accepted a non-empty value
C8_Witness ==
    /\ pc = "checked"
    /\ pattern # <<>> /\ pattern[1] = <<"(", "\\d">>
    /\ postalCode = <<"a">>
    /\ postalResult

-----------------------------------------------------------------------------
(* C9 *)

\* The label the claim gives the postal-code entry
ClaimedPostalLabel(m) ==
    LET type == IF Has(m, "zip_name_type") THEN ToLowerCase(m.zip_name_type) ELSE ""
    IN  CASE type = "pin" -> "PIN Code"
          [] type = "postal" -> "Postal Code"
          [] type = "zip" -> "ZIP Code"
          [] type = "eircode" -> "Eircode"
          [] OTHER ->
               IF IdNames(m, "US") THEN "ZIP Code"
               ELSE IF IdNames(m, "IE") THEN "Eircode"
               ELSE IF IdNames(m, "IN") THEN "PIN Code"
               ELSE "Postal Code"

\* The id is missing, or a country code in capitals, bare or behind "data/"
IdInClaimedForm(m) == Has(m, "id") => \E c \in CountryCodes : IdNames(m, c)

\* C9: the postal-code entry is labelled after the zip name type when it is one
\* of pin/postal/zip/eircode, and otherwise after the country of the metadata
\* id ("US" or "data/US": ZIP Code, IE: Eircode, IN: PIN Code, any other:
\* Postal Code).
C9_PostalLabelByTypeThenCountry ==
    (pc = "built" /\ IdInClaimedForm(metadata)) =>
        \A i \in 1..Len(fields) :
            fields[i].key = "postalCode" => fields[i].label = ClaimedPostalLabel(metadata)

-----------------------------------------------------------------------------
(* C10 *)

StateVocabulary ==
    {"state", "province", "county", "island", "prefecture", "region", "department",
     "district", "do_si", "emirate", "oblast", "parish", "governorate", "area",
     "territory"}

\* C10: with a state name type given, the administrative-area entry is labelled
\* with the vocabulary's label of the type (compared case-insensitively) when
\* the type is in the vocabulary, and "State/Province" for every other type.
C10_StateLabelFromVocabulary ==
    (pc = "built" /\ Has(metadata, "state_name_type") /\ metadata.state_name_type # "") =>
        \A i \in 1..Len(fields) :
            fields[i].key = "administrativeArea" =>
                LET type == ToLowerCase(metadata.state_name_type)
                IN  fields[i].label =
                       (IF type \in StateVocabulary THEN StateLabelMap(type)
                        ELSE "State/Province")

-----------------------------------------------------------------------------
(* Vocabulary of the subdivision properties *)

\* The '~'-separated pieces of a list, counted from 1
TildePositions(s) == {k \in 1..Len(s) : s[k] = "~"}

PieceCount(s) == Cardinality(TildePositions(s)) + 1

Piece(s, i) ==
    LET cuts == TildePositions(s) \cup {0, Len(s) + 1}
        nth(n) == CHOOSE c \in cuts : Cardinality({d \in cuts : d < c}) = n - 1
    IN  SubSeq(s, nth(i) + 1, nth(i + 1) - 1)

\* The name at index i of a list, or the key when it is missing or empty
NameAt(list, i, key) ==
    IF i <= PieceCount(list) /\ Piece(list, i) # <<>> THEN Piece(list, i) ELSE key

ProvidesSubdivisionKeys(m) == Has(m, "sub_keys") /\ m.sub_keys # <<>>

-----------------------------------------------------------------------------
(* C11 *)

\* C11: when the metadata provides subdivision keys, the administrativeArea
\* entry carries an option list with one option per key, in key order, and is
\* a single-select; when it provides no keys the entry carries no option list
\* and is plain text.
C11_OptionPerSubdivisionKey ==
    pc = "built" =>
        \A i \in 1..Len(fields) :
            fields[i].key = "administrativeArea" =>
                IF ProvidesSubdivisionKeys(metadata)
                THEN /\ fields[i].type = "select"
                     /\ Has(fields[i], "options")
                     /\ Len(fields[i].options) = PieceCount(metadata.sub_keys)
                     /\ \A j \in 1..Len(fields[i].options) :
                           fields[i].options[j].value \in
                              {Piece(metadata.sub_keys, j)}
                              \cup (IF Has(metadata, "sub_lnames")
                                    THEN {NameAt(metadata.sub_lnames, j, <<>>)} ELSE {})
                ELSE /\ fields[i].type = "text"
                     /\ ~Has(fields[i], "options")

-----------------------------------------------------------------------------
(* C12 *)

\* C12: with a Latin-script name list, label and value of the option at index
\* i are both the Latin name at i, or the key at i when that name is missing
\* or empty; without one, the value is the key at i and the label is the plain
\* name at i, or the key when that name is missing or empty.  (A Latin-script
\* list that is the empty string has no name at any index.)
C12_OptionLabelAndValue ==
    pc = "built" =>
        \A i \in 1..Len(fields) :
            Has(fields[i], "options") =>
                \A j \in 1..Len(fields[i].options) :
                    LET key == Piece(metadata.sub_keys, j)
                        opt == fields[i].options[j]
                    IN  IF Has(metadata, "sub_lnames")
                        THEN /\ opt.label = NameAt(metadata.sub_lnames, j, key)
                             /\ opt.value = opt.label
                        ELSE /\ opt.value = key
                             /\ opt.label = NameAt(metadata.sub_names, j, key)

\* Two keys, a Latin-script list whose first name is empty: the first option
\* falls back to the key, the second takes the Latin name for label and value
C12_Witness ==
    /\ pc = "built"
    /\ Has(metadata, "sub_keys") /\ metadata.sub_keys = <<"A", "~", "B">>
    /\ Has(metadata, "sub_lnames") /\ metadata.sub_lnames = <<"~", "y">>
    /\ \E i \in 1..Len(fields) :
          /\ Has(fields[i], "options")
          /\ fields[i].options =
                <<[value |-> <<"A">>, label |-> <<"A">>],
                  [value |-> <<"y">>, label |-> <<"y">>]>>

-----------------------------------------------------------------------------
(* C13 *)

Keys(fs) == [i \in 1..Len(fs) |-> fs[i].key]

NoFormatString(m) == ~Has(m, "fmt") \/ m.fmt = <<>>

NameAndOrganizationKeys(opts) ==
    (IF opts.showName THEN <<"name">> ELSE <<>>)
    \o (IF opts.showOrganization THEN <<"organization">> ELSE <<>>)

\* C13 (as claimed): with no format string the schema is that of the default
\* template: name and organization when their flags are set, then
\* addressLine1, addressLine2, city, postalCode; nothing is required when the
\* required-fields string is missing.
C13_DefaultTemplateSchema ==
    (pc = "built" /\ NoFormatString(metadata)) =>
        /\ Keys(fields) = NameAndOrganizationKeys(options)
                            \o <<"addressLine1", "addressLine2", "city", "postalCode">>
        /\ ~Has(metadata, "require") => \A i \in 1..Len(fields) : ~fields[i].required

\* C13 (amended): the same, with addressLine3 after addressLine2 when the
\* metadata id names one of the ten allow-listed countries.
C13_DefaultTemplateWithThirdLine ==
    (pc = "built" /\ NoFormatString(metadata)) =>
        /\ Keys(fields) = NameAndOrganizationKeys(options)
                            \o <<"addressLine1", "addressLine2">>
                            \o (IF AllowListed(metadata) THEN <<"addressLine3">> ELSE <<>>)
                            \o <<"city", "postalCode">>
        /\ ~Has(metadata, "require") => \A i \in 1..Len(fields) : ~fields[i].required

\* The empty record with default options: the four entries, none required
C13_Witness ==
    /\ pc = "built" /\ metadata = EmptyRec /\ options = DefaultOptions
    /\ Keys(fields) = <<"addressLine1", "addressLine2", "city", "postalCode">>
    /\ \A i \in 1..Len(fields) : ~fields[i].required

-----------------------------------------------------------------------------
(* C15 *)

\* C15: the schema has a name entry exactly when showName is set and the
\* format string in force contains %N, an organization entry exactly when
\* showOrganization is set and it contains %O, each once and at the position
\* of the identifier's first appearance among the entries.
C15_NameAndOrganizationByFlag ==
    pc = "built" =>
        LET fmt == FmtString(metadata)
        IN  \A p \in {<<"N", "name", options.showName>>,
                      <<"O", "organization", options.showOrganization>>} :
                /\ Count(fields, p[2]) =
                      (IF p[3] /\ ContainsPlaceholder(fmt, p[1]) THEN 1 ELSE 0)
                /\ \A i, j \in 1..Len(fields) :
                      (fields[i].key = p[2] /\ j # i) =>
                         ((j < i) <=>
                            FirstAppearance(fmt, SourceIdentifier(fields[j].key))
                               < FirstAppearance(fmt, p[1]))

\* %O before %N in the format string, showName alone set: a name entry in
\* front, no organization entry
C15_Witness ==
    /\ pc = "built" /\ options.showName /\ ~options.showOrganization
    /\ Has(metadata, "fmt")
    /\ ContainsPlaceholder(metadata.fmt, "O") /\ ContainsPlaceholder(metadata.fmt, "N")
    /\ FirstAppearance(metadata.fmt, "O") < FirstAppearance(metadata.fmt, "N")
    /\ Len(fields) = 2 /\ fields[1].key = "name"
    /\ ~HasKey(fields, "organization")

-----------------------------------------------------------------------------
(* C16 *)

IsFormatError(e) == e[1] = "Invalid "

\* C16: an entry carries a pattern only if it is the postal-code entry and the
\* metadata has a postal pattern, and the pattern is the metadata's unchanged;
\* with no postal pattern in the metadata no entry carries a pattern and
\* validateAddress records no format error whatever the postal-code value.
C16_PatternOnlyFromMetadata ==
    pc \in {"built", "validated"} =>
        /\ \A i \in 1..Len(fields) :
              IF fields[i].key = "postalCode" /\ Has(metadata, "zip")
              THEN Has(fields[i], "pattern") /\ fields[i].pattern = metadata.zip
              ELSE ~Has(fields[i], "pattern")
        /\ (pc = "validated" /\ ~Has(metadata, "zip")) =>
              \A e \in 1..Len(validation.errors) : ~IsFormatError(validation.errors[e])

\* No postal pattern (as for HK), a postal-code entry and a value that is no
\* postal code anywhere: no format error
C16_Witness ==
    /\ pc = "validated" /\ ~Has(metadata, "zip") /\ metadata.id = <<"HK">>
    /\ HasKey(fields, "postalCode")
    /\ Has(value, "postalCode") /\ value.postalCode = <<"A", "X">>
    /\ \A e \in 1..Len(validation.errors) : ~IsFormatError(validation.errors[e])

-----------------------------------------------------------------------------
(* C14 *)

\* The code in capitals
UpperCaseCode(code) ==
    CASE code \in {"us", "Us"} -> "US"
      [] code = "sg" -> "SG"
      [] OTHER -> code

\* C14: getCountryData returns the record stored for the country whatever the
\* letter case of the code, and for a code absent from the store the generic
\* entry 'ZZ' when the store has one, otherwise the empty record.
C14_LookupIgnoresCaseAndFallsBack ==
    pc = "found" =>
        metadata =
            (IF UpperCaseCode(country) \in DOMAIN addressData
             THEN addressData[UpperCaseCode(country)]
             ELSE IF "ZZ" \in DOMAIN addressData THEN addressData["ZZ"]
             ELSE EmptyRec)

-----------------------------------------------------------------------------
(* Vocabulary of the element's properties *)

\* The schema of the current country and display options
CurrentSchema ==
    buildFieldConfig(getCountryData(country),
                     [showName |-> showName, showOrganization |-> showOrganization])

\* A user change has just been handled
UserChange == step.name \in {"handleCountryChange", "handleFieldChange"}

ValidEvents == {k \in 1..Len(dispatched) : dispatched[k].type = "valid"}

-----------------------------------------------------------------------------
(* C17 *)

\* C17: once the pending update has been processed, the schema held by the
\* element is buildFieldConfig(getCountryData(country), {showName,
\* showOrganization}) for the current values of the three properties.
C17_SchemaFollowsProperties ==
    (pc = "rendered" /\ changedProperties = {}) => fieldConfigs = CurrentSchema

-----------------------------------------------------------------------------
(* C18 *)

\* C18: a user change (a field input or a country selection) dispatches one
\* change event, then one valid event whose validity is that of
\* validateAddress on the current value and the schema of the country now
\* selected.
C18_ValidEventAgainstCurrentCountry ==
    UserChange =>
        /\ Len(dispatched) = 2
        /\ dispatched[1].type = "change" /\ dispatched[2].type = "valid"
        /\ dispatched[2].detail.valid = validateAddress(thisValue, CurrentSchema).valid

-----------------------------------------------------------------------------
(* C19 *)

\* The field just changed has a pattern that is no regular expression
ChangedFieldPatternMalformed ==
    /\ step.name = "handleFieldChange"
    /\ \E i \in 1..Len(fieldConfigs) :
          /\ fieldConfigs[i].key = step.field
          /\ Has(fieldConfigs[i], "pattern")
          /\ ~WellFormedPattern(fieldConfigs[i].pattern)

\* C19: a change of a field whose pattern is malformed raises no exception,
\* records no format error for the field, and dispatches the change and valid
\* events.
C19_FieldValidationFailsOpen ==
    ChangedFieldPatternMalformed =>
        /\ ~thrown
        /\ \A k \in 1..Len(fieldErrors) :
              fieldErrors[k][1] = step.field => ~IsFormatError(fieldErrors[k][2])
        /\ Len(dispatched) = 2
        /\ dispatched[1].type = "change" /\ dispatched[2].type = "valid"

-----------------------------------------------------------------------------
(* C20 *)

\* C20: in every valid event dispatched, valid is true exactly when the
\* errors list is empty, and the errors list has every message that
\* validateAddress reports for the current value and the schema held.
C20_ValidEventCarriesEveryError ==
    \A k \in ValidEvents :
        LET detail == dispatched[k].detail
            reported == validateAddress(thisValue, fieldConfigs).errors
        IN  /\ detail.valid <=> (detail.errors = <<>>)
            /\ \A e \in 1..Len(reported) : Includes(detail.errors, reported[e])

-----------------------------------------------------------------------------
(* C21 *)

\* C21: once the pending updates are processed, the country of the held
\* value and the country returned by getValue() are the current country
\* property.
C21_ValueCountryIsCurrentCountry ==
    (pc = "rendered" /\ changedProperties = {}) =>
        /\ Has(thisValue, "country") /\ thisValue.country = country
        /\ getValue(thisValue, country).country = country

====
